---- MODULE Spec2Model ----
(***************************************************************************)
(* Queue + worker subsystem of the email service.                          *)
(*                                                                         *)
(* The relational store is one function `rows` from row id to row record.  *)
(* The Python layer (EmailQueueManager, EmailWorker, the /queue/process    *)
(* endpoint, the /emails endpoint) is translated from src/.  The bodies of *)
(* the SQL functions the Python layer calls (enqueue_email,                *)
(* get_pending_emails, update_email_status, retry_email) are not part of   *)
(* src/; they are the Sql* operators below, written from section 4.2 / 6.3 *)
(* of the specification.                                                   *)
(*                                                                         *)
(* Time is kept the way real-time specifications keep it, by timers: a     *)
(* stored timestamp is represented by its distance from the current        *)
(* instant, and the passage of time (Tick) moves every pending timer one   *)
(* unit closer.  next_retry_at = 2 reads "next_retry_at is now + 2 units", *)
(* next_retry_at = 0 reads "next_retry_at <= now".  sent_at is only ever   *)
(* written, so all that is kept of it is whether it is set.                *)
(***************************************************************************)
EXTENDS Integers, FiniteSets, Sequences, TLC

\* ------------------------------------------------------------------ bounds
NumRows == 1            \* row ids 1..NumRows can be created

\* --------------------------------------------------------- program values
DefaultMaxRetries == 3  \* EmailRecord.max_retries default
WorkerBatchSize == 50   \* EMAIL_WORKER_BATCH_SIZE default
ApiBatchSize == 10      \* process_queue_endpoint(batch_size = 10)
RetryBackoff == 2       \* EMAIL_RETRY_BACKOFF_SECONDS, in time units of 150 s
PollInterval == 1       \* EMAIL_WORKER_POLL_INTERVAL, in time units of 10 s
Null == 0 - 1           \* SQL NULL for next_retry_at
Rpm == 2                \* RateLimiter.requests_per_minute, scaled down
Rps == 1                \* RateLimiter.requests_per_second, scaled down
MinuteWindow == 3       \* the 60 s window, in limiter time units
SecondWindow == 1       \* the 1 s window: one limiter time unit
MaxBatch == 4           \* records one lease hands to asyncio.gather
WorkerConcurrency == 2  \* EMAIL_WORKER_CONCURRENCY, scaled down
MaxConns == 3           \* smtplib.SMTP objects one SMTPClient can create here
ConnTimeout == 2        \* SMTPClient.CONNECTION_TIMEOUT, in units of 30 s
MaxAttempts == 2        \* _send_message: max_retries = 2
NoConn == 0             \* SMTPClient._connection is None
DbPoolMin == 2          \* DB_POOL_SIZE_MIN (minconn of the pool)
DbPoolMax == 2          \* DB_POOL_SIZE_MAX (maxconn of the pool), scaled down
DbMaxRetries == 2       \* queue operations: max_retries = 2
NoDbConn == 0           \* no connection checked out
MaxErrorLen == 500      \* last_error: at most 500 characters
ShortText == 1          \* length of an error text that is far below the limit

Rows == 1..NumRows
IngressRows == 1..(NumRows + 2)  \* row ids when only the ingress is looked at
Workers == {"w1"}               \* EmailWorker processes
Endpoints == {"api"}            \* in-flight POST /queue/process handlers
Leasers == Workers \cup Endpoints
Clients == {"c1", "c2"}  \* RateLimiter.get_client_id values
Paths == {"/emails", "/queue/status", "/queue/process", "/health"}
TaskIds == 1..MaxBatch   \* the tasks of one asyncio.gather call
ConnIds == 1..MaxConns   \* smtplib.SMTP objects, in the order of creation
Callers == {"t1", "t2"}  \* threads that share one SMTPClient
DbConnIds == 1..DbPoolMax    \* psycopg2 connection objects alive at a time
DbCallers == {"o1", "o2"}    \* callers of EmailQueueManager operations

\* EmailStatus, plus "absent" for an id no INSERT has created yet
Statuses == {"pending", "scheduled", "processing", "sent", "failed"}

\* what one processing attempt of a row runs into
\*   sent            : render ok, send ok, mark_sent ok
\*   render_error    : TemplateRenderError from render_html / render_text
\*   smtp_transient  : SMTPClientError(is_transient = True)
\*   smtp_permanent  : SMTPClientError(is_transient = False)
\*   mark_sent_error : send ok, update_email_status(SENT) raises EmailQueueError
Outcomes == {"sent", "render_error", "smtp_transient", "smtp_permanent",
             "mark_sent_error"}

VARIABLES
    rows,       \* email_queue table: row id -> record, or AbsentRow
    txn,        \* leaser -> row ids locked by its open get_pending_emails transaction
    batch,      \* leaser -> EmailRecord snapshots still to process
    pc,         \* leaser -> position in run() / process_queue_endpoint
    running,    \* worker -> EmailWorker.running
    cycle_error,\* worker -> an exception was raised and caught in its last cycle
    send_calls, \* history: row id -> number of smtp_client.send_email calls
    sched_count,\* history: row id -> number of transitions to scheduled
    sleep_left, \* worker -> what is left of its asyncio.sleep(poll interval)
    long_subject, \* row id -> the stored subject is longer than EmailRecord allows
    requests,   \* RateLimiter._requests: client id -> ages of its recorded requests
    accepted,   \* history: client id -> ages of the requests the limiter accepted
    verdict,    \* history: the last check_rate_limit call and its outcome
    api_key,    \* config.API_KEY
    response,   \* history: the last HTTP request and the response it got
    task,       \* _process_batch: task of asyncio.gather -> where it is
    sem,        \* EmailWorker._semaphore: its counter
    gather,     \* _process_batch: where the call of asyncio.gather is
    connection, \* SMTPClient._connection: a connection id, or NoConn
    last_used,  \* SMTPClient._last_used: how long ago, capped at ConnTimeout
    conns,      \* smtplib.SMTP objects: connection id -> unused / open / closed
    call,       \* caller of SMTPClient.send_email -> its position and locals
    dbpool,     \* EmailQueueManager._pool: connection id -> its state
    dbop,       \* caller of a queue operation -> its position and locals
    error_len,  \* row id -> number of characters of the stored last_error
    closed,     \* worker -> the resources run() has closed, in order
    stats,      \* worker -> processed_count, retry_count, failed_count
    moved       \* history: worker -> rows it moved to sent / scheduled / failed

\* the state of the HTTP layer apart from the queue table
httpVars == <<requests, accepted, verdict, api_key, response>>

\* the tasks of one asyncio.gather call
taskVars == <<task, sem, gather>>

\* one SMTPClient and its callers
smtpVars == <<connection, last_used, conns, call>>

\* the connection pool of one EmailQueueManager and its callers
storeVars == <<dbpool, dbop>>

\* the worker's statistics and shutdown, and the length of stored errors
statVars == <<error_len, closed, stats, moved>>

vars == <<rows, txn, batch, pc, running, cycle_error,
          send_calls, sched_count, sleep_left, long_subject, httpVars,
          taskVars, smtpVars, storeVars, statVars>>

AbsentRow == [status |-> "absent", retry_count |-> 0, max_retries |-> 0,
              last_error |-> "none", next_retry_at |-> Null, sent_at |-> "null",
              template |-> FALSE]

\* ===================================================== SQL surface (6.3)
\* enqueue_email(...) -> id : INSERT of a new row.  scheduled_for is always
\* the time of the call (queue.py passes `scheduled_for or datetime.now()`
\* and the /emails endpoint passes none), so scheduled_for <= now holds for
\* every row from its creation on and the field is not stored.
SqlEnqueueEmail(tpl) ==
    [status |-> "pending", retry_count |-> 0, max_retries |-> DefaultMaxRetries,
     last_error |-> "none", next_retry_at |-> Null, sent_at |-> "null",
     template |-> tpl]

\* eligibility predicate of get_pending_emails(limit)
SqlEligible(row) ==
    /\ row.status \in {"pending", "scheduled"}
    /\ (row.next_retry_at = Null \/ row.next_retry_at <= 0)

\* the UPDATE of get_pending_emails: status flips to processing
SqlLeaseRow(row) == [row EXCEPT !.status = "processing"]

\* update_email_status(id, status, error, sent_at)
SqlUpdateEmailStatus(row, st, err, sentAt) ==
    IF st = "sent"
    THEN [row EXCEPT !.status = "sent", !.sent_at = sentAt]
    ELSE [row EXCEPT !.status = st, !.last_error = err]

\* retry_email(id, error, backoff_seconds)
SqlRetryEmail(row, err, backoff) ==
    [row EXCEPT !.status = "scheduled",
                !.retry_count = @ + 1,
                !.last_error = err,
                !.next_retry_at = backoff]

\* rows some open transaction holds a row lock on
Locked == UNION {txn[w] : w \in Leasers}

\* ORDER BY priority, created_at LIMIT n: every row gets the default priority,
\* ids are handed out in creation order, so the order is the id order
FirstN(S, n) == {r \in S : Cardinality({q \in S : q < r}) < n}

\* SELECT ... FOR UPDATE SKIP LOCKED LIMIT limit
SqlSelectForLease(limit) ==
    FirstN({r \in Rows : SqlEligible(rows[r]) /\ r \notin Locked}, limit)

\* ================================================== EmailQueueManager
\* get_pending_emails: limit = min(max(limit, 1), 1000)
ClampLimit(limit) ==
    IF limit < 1 THEN 1 ELSE IF limit > 1000 THEN 1000 ELSE limit

\* get_pending_emails: EmailRecord(**row_dict), the snapshot a leaser works on
EmailRecord(r) ==
    [id |-> r, retry_count |-> rows[r].retry_count,
     max_retries |-> rows[r].max_retries, template |-> rows[r].template]

\* EmailRecord.subject: Field(..., max_length=500); the validation of
\* EmailRecord(**row_dict) passes for every row of the result set
RecordsValid(S) == \A r \in S : ~long_subject[r]

\* get_pending_emails after the commit: the list of records, unless building
\* one of them raises (the except branch turns that into EmailQueueError)
LeaseResult(S) == IF RecordsValid(S) THEN {EmailRecord(r) : r \in S} ELSE {}

\* get_pending_emails: cur.execute(...); rows = cur.fetchall(); conn.commit()
\* (faulty variant: the transaction ends without the status flip)
RollbackLease(S) == rows
CommitLease(S) ==
    [r \in Rows |-> IF r \in S THEN SqlLeaseRow(rows[r]) ELSE rows[r]]

\* ======================================================== EmailWorker
\* _process_email: does the try block raise, i.e. does the except branch
\* (_handle_send_failure, then re-raise) run
\* (faulty variant: a failure is only logged)
RaisesNever(outcome) == FALSE
Raises(outcome) == outcome # "sent"

\* _process_email: is smtp_client.send_email reached (rendering comes first)
SendReached(outcome) == outcome # "render_error"

\* str(e) of the exception the except branch sees
ErrorOf(outcome) ==
    CASE outcome = "render_error" -> "template"
      [] outcome = "smtp_transient" -> "smtp_transient"
      [] outcome = "smtp_permanent" -> "smtp_permanent"
      [] outcome = "mark_sent_error" -> "queue"
      [] OTHER -> "none"

\* is_transient of the exception (only SMTPClientError carries the flag)
TransientOf(outcome) == outcome = "smtp_transient"

\* _handle_send_failure: if email.retry_count < email.max_retries
\* (faulty variants: off by one either way, and the transient escape)
FailureOpLe(retry_count, max_retries, transient) ==
    IF retry_count <= max_retries THEN "schedule_retry" ELSE "mark_failed"
FailureOpEarly(retry_count, max_retries, transient) ==
    IF retry_count + 1 < max_retries THEN "schedule_retry" ELSE "mark_failed"
FailureOpTransient(retry_count, max_retries, transient) ==
    IF retry_count < max_retries \/ transient
    THEN "schedule_retry" ELSE "mark_failed"
FailureOp(retry_count, max_retries, transient) ==
    IF retry_count < max_retries THEN "schedule_retry" ELSE "mark_failed"

\* process_queue_endpoint: if email.retry_count < email.max_retries
ApiFailureOp(retry_count, max_retries, transient) ==
    IF retry_count < max_retries THEN "schedule_retry" ELSE "mark_failed"

\* _handle_send_failure: backoff = self.config.EMAIL_RETRY_BACKOFF_SECONDS
\* (faulty variant: the retry is due at once)
NoBackoff == RetryBackoff - RetryBackoff
WorkerBackoff == RetryBackoff

\* process_queue_endpoint: backoff_seconds=config.EMAIL_RETRY_BACKOFF_SECONDS
ApiBackoff == RetryBackoff

\* the table `tbl` after the finalising call `op` on row r committed
\* (faulty variant: mark_sent without sent_at)
FinalisedNoStamp(tbl, op, r, err, backoff) ==
    CASE op = "mark_sent" ->
           [tbl EXCEPT ![r] = SqlUpdateEmailStatus(@, "sent", "none", "null")]
      [] op = "mark_failed" ->
           [tbl EXCEPT ![r] = SqlUpdateEmailStatus(@, "failed", err, "null")]
      [] op = "schedule_retry" ->
           [tbl EXCEPT ![r] = SqlRetryEmail(@, err, backoff)]
Finalised(tbl, op, r, err, backoff) ==
    CASE op = "mark_sent" ->
           [tbl EXCEPT ![r] = SqlUpdateEmailStatus(@, "sent", "none", "set")]
      [] op = "mark_failed" ->
           [tbl EXCEPT ![r] = SqlUpdateEmailStatus(@, "failed", err, "null")]
      [] op = "schedule_retry" ->
           [tbl EXCEPT ![r] = SqlRetryEmail(@, err, backoff)]

\* _process_batch: one task per leased email; a task is run once
\* (faulty variant: a task may be run again)
KeepInBatch(B, e) == B
Remaining(B, e) == B \ {e}

\* process_queue_endpoint: `for email in pending_emails` visits each once
\* (faulty variant: an email may be visited again)
ApiKeepInBatch(B, e) == B
ApiRemaining(B, e) == B \ {e}

\* history bookkeeping shared by the two processing loops
CountSched(old, new) ==
    [r \in Rows |-> IF new[r].status = "scheduled" /\ old[r].status # "scheduled"
                    THEN sched_count[r] + 1 ELSE sched_count[r]]


\* =================================================== RateLimiter
\* A recorded request time t is kept as its age now - t, counted from the
\* clock read of is_allowed; an age of MinuteWindow stands for any age that
\* is no longer inside the minute window.
AgeCap(a) == IF a > MinuteWindow THEN MinuteWindow ELSE a

\* a list of ages after d more time units
Aged(list, d) == [i \in 1..Len(list) |-> AgeCap(list[i] + d)]

\* the entries of a list that fulfil now - t < window, now being d time
\* units later than the clock read the ages are counted from
Within(list, window, d) ==
    SelectSeq(list, LAMBDA a : a < MinuteWindow /\ a + d < window)

\* _clean_old_requests(client_id, 60): it reads the clock again, d time
\* units after is_allowed did; an empty list is deleted from the map
CleanOldRequests(list, d) == Within(list, MinuteWindow, d)

\* is_allowed: the two limit checks on the cleaned list, with the clock
\* read of is_allowed
IsAllowed(list) ==
    /\ ~ (Len(Within(list, SecondWindow, 0)) >= Rps)
    /\ ~ (Len(list) >= Rpm)

\* is_allowed: `self._requests[client_id].append(now)` comes after the two
\* `return False` checks
\* (faulty variant: the request is recorded before it is checked)
RecordedAlways(cleaned, ok) == Append(cleaned, 0)
Recorded(cleaned, ok) == IF ok THEN Append(cleaned, 0) ELSE cleaned

\* history bookkeeping: the ages of the accepted requests after d more time
\* units; a request is forgotten once no window that opens with it is open
HistoryAged(list, d) ==
    SelectSeq([i \in 1..Len(list) |-> list[i] + d],
              LAMBDA a : a <= MinuteWindow)

\* the routes that carry dependencies=[Depends(check_rate_limit)], less the
\* path check_rate_limit itself lets through
RateLimited(path) == path = "/emails" /\ path # "/health"

NoVerdict == [client |-> "none", path |-> "none", allowed |-> TRUE,
              counted |-> FALSE]

\* ================================================================= Init
\* the queue table is empty and nothing was ever sent
TableEmpty ==
    /\ rows = [r \in Rows |-> AbsentRow]
    /\ send_calls = [r \in Rows |-> 0]
    /\ sched_count = [r \in Rows |-> 0]
    /\ long_subject = [r \in Rows |-> FALSE]

\* worker and endpoint are up and hold nothing
LeasersIdle ==
    /\ txn = [w \in Leasers |-> {}]
    /\ batch = [w \in Leasers |-> {}]
    /\ pc = [w \in Leasers |-> "poll"]
    /\ running = [w \in Workers |-> TRUE]
    /\ cycle_error = [w \in Workers |-> FALSE]
    /\ sleep_left = [w \in Workers |-> 0]

\* rate_limiter = RateLimiter()
LimiterIdle ==
    /\ requests = [c \in Clients |-> << >>]
    /\ accepted = [c \in Clients |-> << >>]
    /\ verdict = NoVerdict

\* ======================================================= HTTP layer
\* X-API-Key as the handler sees it: absent (None), empty, the configured
\* key, another key, another key with a character outside ASCII
NoKey == "<none>"
ProvidedKeys == {NoKey, "", "secret", "wrong", "wrong-latin1"}
ConfiguredKeys == {"", "secret"}

\* str arguments of secrets.compare_digest must be ASCII only
IsAscii(k) == k # "wrong-latin1"

\* secrets.compare_digest(api_key, configured_key)
CompareDigest(a, b) ==
    IF IsAscii(a) /\ IsAscii(b)
    THEN (IF a = b THEN "equal" ELSE "differ")
    ELSE "TypeError"

\* verify_api_key(api_key, config)
VerifyApiKey(configured, key) ==
    IF configured = "" THEN "admit"
    ELSE IF key = NoKey \/ key = "" THEN "required"
    ELSE CASE CompareDigest(key, configured) = "equal" -> "admit"
           [] CompareDigest(key, configured) = "differ" -> "invalid"
           [] OTHER -> "TypeError"

\* the routes whose handler takes _auth: Depends(verify_api_key)
Authenticated(path) == path \in {"/emails", "/queue/status", "/queue/process"}

\* what the internal exceptions say (they differ in driver, host and port)
InternalErrors == {"psycopg2: db1:5432 refused", "psycopg2: db2:6432 timeout",
                   "smtplib: mx1:587 unreachable"}

\* what the exception of compare_digest says
AuthError == "TypeError: comparing strings with non-ASCII characters"

\* the detail of a 500 response: the except branch of the handler, or, for
\* an exception no handler catches, the text of the framework
\* (faulty variant: the exception text is passed on)
LeakyDetail(path, stage, cause) == cause
ErrorDetail(path, stage, cause) ==
    IF stage # "handler" THEN "Internal Server Error"
    ELSE CASE path = "/emails" -> "Failed to process email request"
           [] path = "/queue/status" -> "Failed to retrieve queue status"
           [] path = "/queue/process" -> "Failed to process email queue"
           [] OTHER -> "Internal Server Error"

\* the request that was answered, as far as the handlers look at it
NoInput == [key |-> NoKey, cause |-> "none", n |-> 0, db |-> "none",
            smtp |-> FALSE]

\* the response of a dependency that refuses the request (the handler does
\* not run), or "pass"
Refusal(path, allowed, configured, key) ==
    IF RateLimited(path) /\ ~allowed
    THEN [stage |-> "limit", code |-> 429,
          detail |-> "Rate limit exceeded. Please try again later."]
    ELSE IF ~Authenticated(path) \/ VerifyApiKey(configured, key) = "admit"
    THEN [stage |-> "pass", code |-> 0, detail |-> "none"]
    ELSE CASE VerifyApiKey(configured, key) = "required" ->
                [stage |-> "auth", code |-> 401, detail |-> "API key required"]
           [] VerifyApiKey(configured, key) = "invalid" ->
                [stage |-> "auth", code |-> 401, detail |-> "Invalid API key"]
           [] OTHER ->
                [stage |-> "auth", code |-> 500,
                 detail |-> ErrorDetail(path, "auth", AuthError)]

\* health_check: the queue probe returns True ("ok"), returns False or
\* raises; validate_smtp_config passes or raises
HealthStatus(db, smtp) == IF db = "ok" THEN "ok" ELSE "degraded"

\* get_queue_stats: SELECT status, COUNT(*) ... GROUP BY status, as a dict
QueueStats ==
    LET present == {rows[r].status : r \in DOMAIN rows} \ {"absent"}
    IN  [st \in present |->
            Cardinality({r \in DOMAIN rows : rows[r].status = st})]

\* get_queue_status_endpoint: counts.get(status, 0)
StatusCount(st) == IF st \in DOMAIN QueueStats THEN QueueStats[st] ELSE 0

NoResponse == [path |-> "none", stage |-> "none", code |-> 0,
               detail |-> "none", input |-> NoInput, created |-> 0,
               calls |-> 0]

\* no request was answered yet
ApiIdle == response = NoResponse

\* ================================================= _process_batch tasks
\* asyncio.Semaphore.locked(): no free slot, acquire() has to wait
\* (faulty variant: acquire() never waits)
SemaphoreNeverLocked(v) == FALSE
SemaphoreLocked(v) == v = 0

\* asyncio.gather(*tasks, return_exceptions=True) has every result
\* (faulty variant: the first exception ends the wait)
GatherFirstException ==
    \/ \A t \in TaskIds : task[t] \in {"none", "done", "raised"}
    \/ \E t \in TaskIds : task[t] = "raised"
GatherComplete == \A t \in TaskIds : task[t] \in {"none", "done", "raised"}

\* tasks inside `async with self._semaphore`, i.e. in _process_email
Inside == {t \in TaskIds : task[t] = "inside"}

\* EmailWorker.__init__: the semaphore is full, no batch is being processed
TasksIdle ==
    /\ task = [t \in TaskIds |-> "none"]
    /\ sem = WorkerConcurrency
    /\ gather = "idle"

\* ========================================================== SMTPClient
\* the record of a caller that is not inside send_email
IdleCall == [pc |-> "idle", smtp |-> NoConn, attempt |-> 0, sends |-> 0,
             failed_on |-> NoConn, result |-> "none", transient |-> FALSE,
             step |-> "none"]

\* the connection state of the client as one value
SmtpState == [connection |-> connection, last_used |-> last_used,
              conns |-> conns]

\* _close_connection: quit() on the current connection, if any, then
\* _connection = None and _last_used = 0
\* (faulty variant: the connection is left as it is)
KeepConnection(st) == st
CloseConnection(st) ==
    IF st.connection = NoConn THEN st
    ELSE [connection |-> NoConn, last_used |-> ConnTimeout,
          conns |-> [st.conns EXCEPT ![st.connection] = "closed"]]

\* the smtplib.SMTP object the next smtplib.SMTP(...) call returns
NewConn(cs) ==
    CHOOSE c \in ConnIds :
        /\ cs[c] = "unused"
        /\ \A d \in ConnIds : d < c => cs[d] # "unused"

\* _get_connection: the stored connection is tried (NOOP) before reuse
Fresh(st) == st.connection # NoConn /\ st.last_used < ConnTimeout

\* what the server answers to NOOP: 250, an error reply such as 421, or the
\* call raises (SMTPServerDisconnected, OSError)
NoopReplies == {"250", "421", "raises"}

\* _create_connection: all three steps pass, or one of them raises
CreateSteps == {"ok", "connect", "starttls", "login"}

\* str(e) of the exceptions met, as lower-case words
ErrorTexts(step) ==
    CASE step = "connect" -> {<<"connection", "refused">>, <<"timed", "out">>}
      [] step = "starttls" -> {<<"starttls", "extension", "not", "supported">>}
      [] step = "login" -> {<<"535", "authentication", "failed">>}
      [] step = "send" -> {<<"invalid", "header", "value">>}
      [] OTHER -> {<<"none">>}

\* _is_transient_error: transient_keywords
TransientKeywords == {"timeout", "connection", "temporarily", "try again",
                      "unavailable", "service", "refused", "reset",
                      "broken pipe"}

\* _is_transient_error: any(keyword in error_str for keyword in ...)
IsTransientError(text) ==
    \E i \in 1..Len(text) : text[i] \in TransientKeywords

\* _get_connection under the lock, with _create_connection: the state of
\* the client afterwards, the connection returned, and whether
\* SMTPClientError was raised instead
GetConnOutcome(st, reply, step) ==
    IF Fresh(st) /\ reply = "250"
    THEN [st |-> [st EXCEPT !.last_used = 0], smtp |-> st.connection,
          raised |-> FALSE]
    ELSE LET st1 == IF Fresh(st) /\ reply = "raises"
                    THEN CloseConnection(st) ELSE st
             c   == NewConn(st1.conns)
         IN  IF step = "ok"
             THEN [st |-> [connection |-> c, last_used |-> 0,
                           conns |-> [st1.conns EXCEPT ![c] = "open"]],
                   smtp |-> c, raised |-> FALSE]
             ELSE [st |-> st1, smtp |-> NoConn, raised |-> TRUE]

\* the inputs that go together: NOOP is sent only to a fresh connection,
\* _create_connection runs unless NOOP answered 250, and a new connection
\* needs an object that was not handed out yet
GetConnInputs(st, reply, step) ==
    /\ IF Fresh(st) THEN reply \in NoopReplies ELSE reply = "not_sent"
    /\ IF Fresh(st) /\ reply = "250" THEN step = "not_run"
       ELSE step \in CreateSteps
    /\ step = "ok" => \E c \in ConnIds : st.conns[c] = "unused"

\* SMTPClient.__init__: no connection, _last_used = 0
SmtpIdle ==
    /\ connection = NoConn
    /\ last_used = ConnTimeout
    /\ conns = [c \in ConnIds |-> "unused"]
    /\ call = [t \in Callers |-> IdleCall]

\* ================================================ EmailQueueManager pool
\* a connection id no connection object exists for
NoDbConnection == [state |-> "none", alive |-> FALSE, probed |-> FALSE]

\* a caller that is in no queue operation
IdleDbOp == [pc |-> "idle", kind |-> "none", attempt |-> 0, conn |-> NoDbConn,
             result |-> "none", failure |-> "none"]

\* the operations by the shape of their retry loop:
\*   decorated : a method wrapped in with_db_retry
\*   write     : enqueue_email, get_pending_emails, update_email_status,
\*               retry_email, cleanup_old_emails (conn.rollback() in both
\*               except branches)
\*   read      : get_email_by_id, get_queue_stats (no rollback)
\*   health    : health_check (one attempt, every exception becomes False)
DbKinds == {"decorated", "write", "read", "health"}

\* what the SQL round trip of one attempt does
\*   ok          : the statement ran and the commit went through
\*   operational : psycopg2.OperationalError
\*   other       : any other exception
DbOutcomes == {"ok", "operational", "other"}

IdleConns(p) == {c \in DbConnIds : p[c].state = "idle"}
OpenConns(p) == {c \in DbConnIds : p[c].state # "none"}

\* self._pool.getconn(): an idle connection if there is one; otherwise a new
\* connection (createOk: connecting succeeds), unless maxconn are open
PoolGetconn(p, c, createOk) ==
    IF IdleConns(p) # {}
    THEN [pool |-> [p EXCEPT ![c].state = "used"], conn |-> c,
          raised |-> "none"]
    ELSE IF Cardinality(OpenConns(p)) >= DbPoolMax
    THEN [pool |-> p, conn |-> NoDbConn, raised |-> "PoolError"]
    ELSE IF createOk
    THEN [pool |-> [p EXCEPT ![c] = [state |-> "used", alive |-> TRUE,
                                     probed |-> FALSE]],
          conn |-> c, raised |-> "none"]
    ELSE [pool |-> p, conn |-> NoDbConn, raised |-> "OperationalError"]

\* the inputs getconn can meet in pool state p: which idle connection it
\* pops, or which free id the new connection object gets (the lowest)
GetconnInputs(p, c, createOk) ==
    LET free == DbConnIds \ OpenConns(p)
    IN  IF IdleConns(p) # {} THEN c \in IdleConns(p) /\ createOk
        ELSE IF Cardinality(OpenConns(p)) >= DbPoolMax
        THEN c = NoDbConn /\ createOk
        ELSE IF createOk THEN c \in free /\ \A d \in free : c <= d
        ELSE c = NoDbConn

\* self._pool.putconn(conn, close): the connection goes back to the idle
\* list while fewer than minconn are idle, and is closed otherwise
PoolPutconn(p, c, close) ==
    IF ~close /\ Cardinality(IdleConns(p)) < DbPoolMin
    THEN [p EXCEPT ![c] = [@ EXCEPT !.state = "idle", !.probed = FALSE]]
    ELSE [p EXCEPT ![c] = NoDbConnection]

\* _validate_connection(conn): SELECT 1 passes on a live connection and
\* raises OperationalError / InterfaceError, turned into False, on a dead one
ValidateDbConnection(p, c) == p[c].alive

\* _get_connection: getconn, probe; after a failed probe the connection is
\* closed and put back with close=True and `conn = self._pool.getconn()` is
\* returned as it comes
GetDbConnection(p, c1, ok1, c2, ok2) ==
    LET g1 == PoolGetconn(p, c1, ok1)
    IN  IF g1.raised # "none" THEN g1
        ELSE IF ValidateDbConnection(g1.pool, c1)
        THEN [g1 EXCEPT !.pool = [@ EXCEPT ![c1] = [@ EXCEPT !.probed = TRUE]]]
        ELSE PoolGetconn(PoolPutconn(g1.pool, c1, TRUE), c2, ok2)

\* the inputs _get_connection can meet: those of its first getconn and,
\* when the probe fails, those of its second
GetDbConnectionInputs(p, c1, ok1, c2, ok2) ==
    LET g1 == PoolGetconn(p, c1, ok1)
    IN  /\ GetconnInputs(p, c1, ok1)
        /\ IF g1.raised = "none" /\ ~ValidateDbConnection(g1.pool, c1)
           THEN GetconnInputs(PoolPutconn(g1.pool, c1, TRUE), c2, ok2)
           ELSE c2 = NoDbConn /\ ok2

\* _return_connection(conn): self._pool.putconn(conn)
\* (faulty variant: the connection stays checked out)
ReturnConnectionNever(p, c) == p
ReturnConnection(p, c) == PoolPutconn(p, c, FALSE)

\* the except branches of the operation call conn.rollback() first
HasRollback(kind) == kind \in {"decorated", "write"}

\* the class of the error an attempt ran into
FailureOf(outcome) ==
    CASE outcome = "operational" -> "connection"
      [] outcome = "other" -> "other"
      [] OTHER -> "none"

\* how _get_connection leaves the operation when it raises: it is called
\* outside the try block, only health_check catches what it raises
GetRaised(kind, raised) ==
    [pc |-> "done",
     result |-> IF kind = "health" THEN "False" ELSE raised,
     failure |-> IF raised = "OperationalError" THEN "connection" ELSE "other"]

\* one pass of `for attempt in range(max_retries)` after the connection was
\* obtained.  rollbackOk: conn.rollback() in the except branch returns; when
\* it raises, its exception replaces the one being handled
AttemptResult(kind, attempt, outcome, rollbackOk) ==
    CASE kind = "health" ->
           [pc |-> "done",
            result |-> IF outcome = "ok" THEN "True" ELSE "False",
            failure |-> FailureOf(outcome)]
      [] kind # "health" /\ outcome = "ok" ->
           [pc |-> "done", result |-> "returned", failure |-> "none"]
      [] kind # "health" /\ outcome # "ok" /\ HasRollback(kind)
           /\ ~rollbackOk ->
           [pc |-> "done", result |-> "InterfaceError",
            failure |-> FailureOf(outcome)]
      [] OTHER ->
           IF outcome = "operational" /\ attempt < DbMaxRetries - 1
           THEN [pc |-> "get", result |-> "none", failure |-> "connection"]
           ELSE [pc |-> "done", result |-> "EmailQueueError",
                 failure |-> FailureOf(outcome)]

\* _init_pool: SimpleConnectionPool opens minconn connections; no caller
PoolIdle ==
    /\ dbpool = [c \in DbConnIds |->
                   IF c <= DbPoolMin
                   THEN [state |-> "idle", alive |-> TRUE, probed |-> FALSE]
                   ELSE NoDbConnection]
    /\ dbop = [o \in DbCallers |-> IdleDbOp]

\* =========================================== error texts and statistics
\* lengths of str(e): far below the limit, at the limit, above it
ErrorLengths == {ShortText, MaxErrorLen, MaxErrorLen + 1}

\* text[:n]
Truncate(len, n) == IF len > n THEN n ELSE len

\* _process_email: `self._handle_send_failure(email, str(e))`, and from there
\* `error=error` to retry_email / update_email_status
WorkerErrorText(len) == len

\* process_queue_endpoint: `error_msg = str(e)[:500]`
ApiErrorText(len) == Truncate(len, MaxErrorLen)

\* the length of last_error the SQL functions store: mark_failed truncates
\* to 500 characters, schedule_retry stores the text it is given
SqlErrorLen(op, len) ==
    IF op = "mark_failed" THEN Truncate(len, MaxErrorLen) ELSE len

\* error_len after the finalising call `op` on row r committed
StoredErrorLen(op, r, len) ==
    IF op = "mark_sent" THEN error_len
    ELSE [error_len EXCEPT ![r] = SqlErrorLen(op, len)]

\* EmailWorker.__init__: the three counters; results is the number of
\* non-exception results of the gather call under way
ZeroStats == [processed_count |-> 0, retry_count |-> 0, failed_count |-> 0,
              results |-> 0]
ZeroMoved == [sent |-> 0, scheduled |-> 0, failed |-> 0]

\* _process_batch: `if not isinstance(result, Exception)` decides whether a
\* task's result counts as processed
\* (faulty variant: every result counts)
ResultCountedAlways(outcome) == TRUE
ResultCounted(outcome) == ~Raises(outcome)

\* the counters after _process_email ran for one record: the increments of
\* _handle_send_failure follow the queue call, so they are skipped when it
\* raises
CountedStats(st, outcome, op, finalOk) ==
    [st EXCEPT
       !.results = IF ResultCounted(outcome) THEN @ + 1 ELSE @,
       !.retry_count = IF Raises(outcome) /\ finalOk /\ op = "schedule_retry"
                       THEN @ + 1 ELSE @,
       !.failed_count = IF Raises(outcome) /\ finalOk /\ op = "mark_failed"
                        THEN @ + 1 ELSE @]

\* _process_batch after gather: `self.processed_count += 1` per result
\* that is no exception
BatchCounted(st) ==
    [st EXCEPT !.processed_count = @ + st.results, !.results = 0]

\* history bookkeeping: the status changes one step made in the table
MovedBy(m, old, new) ==
    LET to(st) == Cardinality({r \in Rows : new[r].status = st
                                            /\ old[r].status # st})
    IN  [sent |-> m.sent + to("sent"),
         scheduled |-> m.scheduled + to("scheduled"),
         failed |-> m.failed + to("failed")]

\* run() after the loop: smtp_client.close(), then queue_manager.close()
\* (faulty variant: the queue store first)
CloseQueueFirst == <<"queue", "smtp">>
CloseResources == <<"smtp", "queue">>

\* no error stored, nothing closed, all counters zero
StatsIdle ==
    /\ error_len = [r \in Rows |-> 0]
    /\ closed = [w \in Workers |-> <<>>]
    /\ stats = [w \in Workers |-> ZeroStats]
    /\ moved = [w \in Workers |-> ZeroMoved]

Init ==
    /\ TableEmpty
    /\ LeasersIdle
    /\ LimiterIdle
    /\ ApiIdle
    /\ api_key = ""
    /\ TasksIdle
    /\ SmtpIdle
    /\ PoolIdle
    /\ StatsIdle

\* ============================================================== actions
\* one unit of time passes: every timestamp still in the future is one unit
\* closer (nothing else in the table depends on the time)
Tick ==
    /\ \E r \in Rows : rows[r].next_retry_at > 0
    /\ rows' = [r \in Rows |->
                 IF rows[r].next_retry_at > 0
                 THEN [rows[r] EXCEPT !.next_retry_at = @ - 1] ELSE rows[r]]
    /\ UNCHANGED <<txn, batch, pc, running, cycle_error,
                   send_calls, sched_count>>
    /\ UNCHANGED <<sleep_left, long_subject, httpVars, taskVars, smtpVars, storeVars, statVars>>

\* POST /emails (send_email): one enqueue_email call per recipient, in order;
\* n recipients, the first k calls succeed, call k+1 (if k < n) raises and
\* the handler answers 500
SendEmail(n, k, tpl) ==
    LET free == {r \in Rows : rows[r].status = "absent"}
        new  == FirstN(free, k)
    IN  /\ k <= n
        /\ Cardinality(free) >= n
        /\ rows' = [r \in Rows |-> IF r \in new THEN SqlEnqueueEmail(tpl)
                                   ELSE rows[r]]
        /\ UNCHANGED <<txn, batch, pc, running, cycle_error,
                       send_calls, sched_count>>
        /\ UNCHANGED <<sleep_left, long_subject, httpVars, taskVars, smtpVars, storeVars, statVars>>

\* get_pending_emails, first half: the lease statement runs inside a
\* transaction and locks the rows it selected
GetPendingExecute(w, limit) ==
    /\ pc[w] = "poll"
    /\ txn' = [txn EXCEPT ![w] = SqlSelectForLease(ClampLimit(limit))]
    /\ pc' = [pc EXCEPT ![w] = "lease_tx"]
    /\ cycle_error' = [v \in Workers |-> IF v = w THEN FALSE ELSE cycle_error[v]]
    /\ UNCHANGED <<rows, batch, running, send_calls, sched_count>>
    /\ UNCHANGED <<sleep_left, long_subject, httpVars, taskVars, smtpVars, storeVars, statVars>>

\* get_pending_emails, second half: conn.commit() and the records are
\* returned; an empty result ends the cycle at once, and so does a record
\* that fails validation (raised after the commit, so the rows stay leased)
GetPendingCommit(w) ==
    /\ pc[w] = "lease_tx"
    /\ rows' = CommitLease(txn[w])
    /\ batch' = [batch EXCEPT ![w] = LeaseResult(txn[w])]
    /\ txn' = [txn EXCEPT ![w] = {}]
    /\ pc' = [pc EXCEPT ![w] = "batch"]
    /\ cycle_error' = [v \in Workers |->
                         IF v = w /\ ~RecordsValid(txn[w]) THEN TRUE
                         ELSE cycle_error[v]]
    /\ UNCHANGED <<running, send_calls, sched_count>>
    /\ UNCHANGED <<sleep_left, long_subject, httpVars, taskVars, smtpVars, storeVars, statVars>>

\* get_pending_emails raises EmailQueueError (psycopg2.OperationalError on
\* both attempts): conn.rollback() undoes the lease statement
GetPendingError(w) ==
    /\ pc[w] = "lease_tx"
    /\ txn' = [txn EXCEPT ![w] = {}]
    /\ cycle_error' = [v \in Workers |-> IF v = w THEN TRUE ELSE cycle_error[v]]
    /\ pc' = [pc EXCEPT ![w] = "batch"]
    /\ UNCHANGED <<rows, batch, running, send_calls, sched_count>>
    /\ UNCHANGED <<sleep_left, long_subject, httpVars, taskVars, smtpVars, storeVars, statVars>>

\* EmailWorker._process_email(email) with _handle_send_failure; the method
\* holds no await, so it runs as one step.  finalOk: the queue call of
\* _handle_send_failure commits (TRUE) or raises EmailQueueError (FALSE)
ProcessEmailStep(w, e, outcome, finalOk, len) ==
    LET r    == e.id
        t1   == IF outcome = "sent"
                THEN Finalised(rows, "mark_sent", r, "none", WorkerBackoff)
                ELSE rows
        op   == FailureOp(e.retry_count, e.max_retries, TransientOf(outcome))
        t2   == IF Raises(outcome) /\ finalOk
                THEN Finalised(t1, op, r, ErrorOf(outcome), WorkerBackoff)
                ELSE t1
    IN  /\ w \in Workers
        /\ pc[w] = "batch"
        /\ e \in batch[w]
        /\ outcome = "render_error" => e.template
        /\ rows' = t2
        /\ batch' = [batch EXCEPT ![w] = Remaining(@, e)]
        /\ send_calls' = [send_calls EXCEPT ![r] =
                            IF SendReached(outcome) THEN @ + 1 ELSE @]
        /\ sched_count' = CountSched(rows, t2)
        /\ cycle_error' = [cycle_error EXCEPT ![w] = @ \/ Raises(outcome)]
        /\ error_len' = IF Raises(outcome) /\ finalOk
                        THEN StoredErrorLen(op, r, WorkerErrorText(len))
                        ELSE error_len
        /\ UNCHANGED <<txn, pc, running, closed>>
        /\ UNCHANGED <<sleep_left, long_subject, httpVars, taskVars,
                       smtpVars, storeVars>>

\* the step with the worker's counters, which nothing but _print_stats
\* reads: processed_count is settled after gather (BatchDone), retry_count
\* and failed_count in _handle_send_failure
ProcessEmailCounted(w, e, outcome, finalOk, len) ==
    LET op == FailureOp(e.retry_count, e.max_retries, TransientOf(outcome))
    IN  /\ ProcessEmailStep(w, e, outcome, finalOk, len)
        /\ stats' = [stats EXCEPT ![w] =
                       CountedStats(@, outcome, op, finalOk)]
        /\ moved' = [moved EXCEPT ![w] = MovedBy(@, rows, rows')]

\* the step where the counters are not followed
ProcessEmailText(w, e, outcome, finalOk, len) ==
    /\ ProcessEmailStep(w, e, outcome, finalOk, len)
    /\ UNCHANGED <<stats, moved>>

\* _process_email for an exception whose text is short
ProcessEmail(w, e, outcome, finalOk) ==
    ProcessEmailText(w, e, outcome, finalOk, ShortText)

\* process_queue_endpoint: one pass of `for email in pending_emails`, in list
\* order.  A queue call that raises inside the except branch leaves the loop
\* (outer handler, 500) with the rest of the batch untouched
ApiProcessEmailText(w, e, outcome, finalOk, len) ==
    LET r    == e.id
        t1   == IF outcome = "sent"
                THEN Finalised(rows, "mark_sent", r, "none", ApiBackoff)
                ELSE rows
        op   == ApiFailureOp(e.retry_count, e.max_retries, TransientOf(outcome))
        t2   == IF outcome # "sent" /\ finalOk
                THEN Finalised(t1, op, r, ErrorOf(outcome), ApiBackoff)
                ELSE t1
    IN  /\ w \in Endpoints
        /\ pc[w] = "batch"
        /\ e \in batch[w]
        /\ \A o \in batch[w] : e.id <= o.id
        /\ outcome = "render_error" => e.template
        /\ rows' = t2
        /\ batch' = [batch EXCEPT ![w] =
                       IF outcome # "sent" /\ ~finalOk THEN {}
                       ELSE ApiRemaining(@, e)]
        /\ send_calls' = [send_calls EXCEPT ![r] =
                            IF outcome # "render_error" THEN @ + 1 ELSE @]
        /\ sched_count' = CountSched(rows, t2)
        /\ error_len' = IF outcome # "sent" /\ finalOk
                        THEN StoredErrorLen(op, r, ApiErrorText(len))
                        ELSE error_len
        /\ UNCHANGED <<txn, pc, running, cycle_error, closed, stats, moved>>
        /\ UNCHANGED <<sleep_left, long_subject, httpVars, taskVars,
                       smtpVars, storeVars>>

\* one pass of the endpoint's loop for an exception whose text is short
ApiProcessEmail(w, e, outcome, finalOk) ==
    ApiProcessEmailText(w, e, outcome, finalOk, ShortText)

\* where the worker goes when a cycle is over: _process_batch catches every
\* Exception, run() as well, then `await asyncio.sleep(...)`
\* (faulty variant: an exception of the cycle ends the loop)
CycleEndNoCatch(w) == IF cycle_error[w] THEN "stopped" ELSE "sleep"
CycleEnd(w) == "sleep"

\* the batch is done (gather returned, or the lease raised or came back
\* empty): the worker sleeps, the endpoint answers and is idle again
BatchDone(w) ==
    /\ pc[w] = "batch"
    /\ batch[w] = {}
    /\ pc' = [pc EXCEPT ![w] = IF w \in Workers THEN CycleEnd(w) ELSE "poll"]
    /\ sleep_left' = [v \in Workers |-> IF v = w THEN PollInterval
                                         ELSE sleep_left[v]]
    /\ stats' = [v \in Workers |-> IF v = w THEN BatchCounted(stats[v])
                                    ELSE stats[v]]
    /\ UNCHANGED <<rows, txn, batch, running, cycle_error,
                   send_calls, sched_count, error_len, closed, moved>>
    /\ UNCHANGED <<long_subject, httpVars, taskVars, smtpVars, storeVars>>

\* time passes for a sleeping worker
PollTick(w) ==
    /\ w \in Workers
    /\ pc[w] = "sleep"
    /\ sleep_left[w] > 0
    /\ sleep_left' = [sleep_left EXCEPT ![w] = @ - 1]
    /\ UNCHANGED <<rows, txn, batch, pc, running, cycle_error,
                   send_calls, sched_count>>
    /\ UNCHANGED <<long_subject, httpVars, taskVars, smtpVars, storeVars, statVars>>

\* run(): `while self.running`
AfterSleep(w) == IF running[w] THEN "poll" ELSE "stopped"

\* run(): the sleep is over and `while self.running` is evaluated; when it
\* is false the worker prints its statistics, closes and returns
WakeUp(w) ==
    /\ w \in Workers
    /\ pc[w] = "sleep"
    /\ sleep_left[w] = 0
    /\ pc' = [pc EXCEPT ![w] = AfterSleep(w)]
    /\ closed' = [closed EXCEPT ![w] =
                    IF AfterSleep(w) = "stopped" THEN CloseResources ELSE @]
    /\ UNCHANGED <<rows, txn, batch, running, cycle_error,
                   send_calls, sched_count, error_len, stats, moved>>
    /\ UNCHANGED <<sleep_left, long_subject, httpVars, taskVars,
                   smtpVars, storeVars>>

\* _handle_shutdown: SIGTERM / SIGINT
HandleShutdown(w) ==
    /\ w \in Workers
    /\ pc[w] \notin {"stopped", "dead"}
    /\ running[w]
    /\ running' = [running EXCEPT ![w] = FALSE]
    /\ UNCHANGED <<rows, txn, batch, pc, cycle_error,
                   send_calls, sched_count>>
    /\ UNCHANGED <<sleep_left, long_subject, httpVars, taskVars, smtpVars, storeVars, statVars>>

\* the worker process is killed: its open transaction is rolled back by the
\* server, the records it held are gone, the rows stay as they are
WorkerDie(w) ==
    /\ w \in Workers
    /\ pc[w] \notin {"stopped", "dead"}
    /\ pc' = [pc EXCEPT ![w] = "dead"]
    /\ txn' = [txn EXCEPT ![w] = {}]
    /\ batch' = [batch EXCEPT ![w] = {}]
    /\ running' = [running EXCEPT ![w] = FALSE]
    /\ cycle_error' = [cycle_error EXCEPT ![w] = FALSE]
    /\ sleep_left' = [sleep_left EXCEPT ![w] = 0]
    /\ stats' = [stats EXCEPT ![w] = ZeroStats]
    /\ moved' = [moved EXCEPT ![w] = ZeroMoved]
    /\ UNCHANGED <<rows, send_calls, sched_count, error_len, closed>>
    /\ UNCHANGED <<long_subject, httpVars, taskVars, smtpVars, storeVars>>

\* main(): a new EmailWorker() is started and enters run()
WorkerBoot(w) ==
    /\ w \in Workers
    /\ pc[w] \in {"stopped", "dead"}
    /\ pc' = [pc EXCEPT ![w] = "poll"]
    /\ running' = [running EXCEPT ![w] = TRUE]
    /\ cycle_error' = [cycle_error EXCEPT ![w] = FALSE]
    /\ closed' = [closed EXCEPT ![w] = <<>>]
    /\ stats' = [stats EXCEPT ![w] = ZeroStats]
    /\ moved' = [moved EXCEPT ![w] = ZeroMoved]
    /\ UNCHANGED <<rows, txn, batch, send_calls, sched_count, error_len>>
    /\ UNCHANGED <<sleep_left, long_subject, httpVars, taskVars,
                   smtpVars, storeVars>>

\* ------------------------------------------------- rate limiting
\* the variables the limiter does not touch
notLimiterVars == <<rows, txn, batch, pc, running, cycle_error, send_calls,
                    sched_count, sleep_left, long_subject, api_key, response,
                    taskVars, smtpVars, storeVars, statVars>>

\* one limiter time unit passes
LimiterTick ==
    /\ \E c \in Clients : \E i \in 1..Len(requests[c]) :
            requests[c][i] < MinuteWindow
    /\ requests' = [c \in Clients |-> Aged(requests[c], 1)]
    /\ accepted' = [c \in Clients |-> HistoryAged(accepted[c], 1)]
    /\ UNCHANGED <<verdict, notLimiterVars>>

\* a request of client c for `path` passes the route's dependencies:
\* check_rate_limit and, inside it, rate_limiter.is_allowed(client_id).
\* d: the clock moves d units between `now = time.time()` of is_allowed and
\* `now = time.time()` of _clean_old_requests; the request is recorded with
\* the first reading
CheckRateLimit(c, path, d) ==
    LET cleaned == CleanOldRequests(requests[c], d)
        ok      == IsAllowed(cleaned)
        mine    == Recorded(cleaned, ok)
    IN  IF ~RateLimited(path)
        THEN /\ verdict' = [client |-> c, path |-> path, allowed |-> TRUE,
                            counted |-> FALSE]
             /\ UNCHANGED <<requests, accepted, notLimiterVars>>
        ELSE /\ requests' = [o \in Clients |->
                               Aged(IF o = c THEN mine ELSE requests[o], d)]
             /\ accepted' = [o \in Clients |->
                               HistoryAged(IF o = c /\ ok
                                           THEN Append(accepted[o], 0)
                                           ELSE accepted[o], d)]
             /\ verdict' = [client |-> c, path |-> path, allowed |-> ok,
                            counted |-> ok]
             /\ UNCHANGED notLimiterVars

LimiterNext ==
    \/ LimiterTick
    \/ \E c \in Clients, path \in Paths, d \in 0..1 : CheckRateLimit(c, path, d)

LimiterSpec == Init /\ [][LimiterNext]_vars

\* ---------------------------------------------------- HTTP handlers
\* the variables the handlers below do not touch
notApiVars == <<txn, batch, pc, running, cycle_error, send_calls, sched_count,
                sleep_left, long_subject, requests, accepted, verdict, api_key,
                taskVars, smtpVars, storeVars, statVars>>

\* send_email: `for recipient in request.to: queue_manager.enqueue_email(...)`
\* with the first k calls succeeding
\* (faulty variant: one row per request)
EnqueuedOnce(free, k) == FirstN(free, IF k > 0 THEN 1 ELSE 0)
Enqueued(free, k) == FirstN(free, k)

\* POST /emails with n recipients.  check_rate_limit runs as a dependency
\* of the route before the handler; the limiter's own state is followed in
\* LimiterSpec, and here `allowed` ranges over both verdicts it can give.
\* k is the number of enqueue_email calls that succeed before one raises
\* `cause` (k = n: none raises)
PostEmails(key, allowed, n, k, tpl, cause) ==
    LET ref  == Refusal("/emails", allowed, api_key, key)
        free == {r \in DOMAIN rows : rows[r].status = "absent"}
        new  == Enqueued(free, k)
        in   == [NoInput EXCEPT !.key = key, !.n = n]
    IN  IF ref.stage # "pass"
        THEN /\ k = 0
             /\ response' = [path |-> "/emails", stage |-> ref.stage,
                             code |-> ref.code, detail |-> ref.detail,
                             input |-> [in EXCEPT !.cause =
                                          IF ref.code = 500 THEN AuthError
                                          ELSE "none"],
                             created |-> 0, calls |-> 0]
             /\ UNCHANGED <<rows, notApiVars>>
        ELSE /\ k <= n
             /\ Cardinality(free) >= n
             /\ rows' = [r \in DOMAIN rows |->
                           IF r \in new THEN SqlEnqueueEmail(tpl) ELSE rows[r]]
             /\ response' =
                   IF k = n
                   THEN [path |-> "/emails", stage |-> "handler", code |-> 202,
                         detail |-> "Email stored in queue", input |-> in,
                         created |-> Cardinality(new), calls |-> n]
                   ELSE [path |-> "/emails", stage |-> "handler", code |-> 500,
                         detail |-> ErrorDetail("/emails", "handler", cause),
                         input |-> [in EXCEPT !.cause = cause],
                         created |-> Cardinality(new), calls |-> k + 1]
             /\ UNCHANGED notApiVars

\* GET /queue/status; fails: get_queue_stats raises `cause`
GetQueueStatus(key, fails, cause) ==
    LET ref == Refusal("/queue/status", TRUE, api_key, key)
        in  == [NoInput EXCEPT !.key = key]
    IN  /\ response' =
              IF ref.stage # "pass"
              THEN [path |-> "/queue/status", stage |-> ref.stage,
                    code |-> ref.code, detail |-> ref.detail,
                    input |-> [in EXCEPT !.cause =
                                 IF ref.code = 500 THEN AuthError ELSE "none"],
                    created |-> 0, calls |-> 0]
              ELSE IF fails
              THEN [path |-> "/queue/status", stage |-> "handler",
                    code |-> 500,
                    detail |-> ErrorDetail("/queue/status", "handler", cause),
                    input |-> [in EXCEPT !.cause = cause],
                    created |-> 0, calls |-> 0]
              ELSE [path |-> "/queue/status", stage |-> "handler",
                    code |-> 200, detail |-> "counts", input |-> in,
                    created |-> 0, calls |-> 0]
        /\ UNCHANGED <<rows, notApiVars>>

\* GET /health: no rate limit, no authentication
HealthCheck(key, db, smtp) ==
    LET ref == Refusal("/health", TRUE, api_key, key)
    IN  /\ ref.stage = "pass"
        /\ response' = [path |-> "/health", stage |-> "handler",
                        code |-> IF HealthStatus(db, smtp) = "ok"
                                 THEN 200 ELSE 503,
                        detail |-> HealthStatus(db, smtp),
                        input |-> [NoInput EXCEPT !.key = key, !.db = db,
                                                  !.smtp = smtp],
                        created |-> 0, calls |-> 0]
        /\ UNCHANGED <<rows, notApiVars>>

\* the API process is up with an empty queue table and some configured key
ApiInit ==
    /\ rows = [r \in IngressRows |-> AbsentRow]
    /\ send_calls = [r \in Rows |-> 0]
    /\ sched_count = [r \in Rows |-> 0]
    /\ long_subject = [r \in Rows |-> FALSE]
    /\ LeasersIdle
    /\ LimiterIdle
    /\ ApiIdle
    /\ api_key \in ConfiguredKeys
    /\ TasksIdle
    /\ SmtpIdle
    /\ PoolIdle
    /\ StatsIdle

ApiNext ==
    \/ \E key \in ProvidedKeys, allowed \in BOOLEAN, n \in 1..(NumRows + 2),
          k \in 0..(NumRows + 2), tpl \in BOOLEAN, cause \in InternalErrors :
            PostEmails(key, allowed, n, k, tpl, cause)
    \/ \E key \in ProvidedKeys, fails \in BOOLEAN, cause \in InternalErrors :
            GetQueueStatus(key, fails, cause)
    \/ \E key \in ProvidedKeys, db \in {"ok", "false", "raises"},
          smtp \in BOOLEAN : HealthCheck(key, db, smtp)

ApiSpec == ApiInit /\ [][ApiNext]_vars

\* POST /emails whose subject is longer than 500 characters (EmailRequest
\* allows up to 998): as SendEmail, and the rows carry the long subject
SendEmailLongSubject(n, k, tpl) ==
    LET free == {r \in Rows : rows[r].status = "absent"}
        new  == FirstN(free, k)
    IN  /\ k <= n
        /\ Cardinality(free) >= n
        /\ new # {}
        /\ rows' = [r \in Rows |-> IF r \in new THEN SqlEnqueueEmail(tpl)
                                   ELSE rows[r]]
        /\ long_subject' = [r \in Rows |-> r \in new \/ long_subject[r]]
        /\ UNCHANGED <<txn, batch, pc, running, cycle_error,
                       send_calls, sched_count, sleep_left, httpVars,
                       taskVars, smtpVars, storeVars, statVars>>

\* every step of the queue, the leasers and time, apart from the worker's
\* _process_email
OtherNext ==
    \/ Tick
    \/ \E n \in 1..NumRows, k \in 0..NumRows, tpl \in BOOLEAN : SendEmail(n, k, tpl)
    \/ \E w \in Workers : GetPendingExecute(w, WorkerBatchSize)
    \/ \E w \in Endpoints : GetPendingExecute(w, ApiBatchSize)
    \/ \E w \in Leasers : GetPendingCommit(w)
    \/ \E w \in Leasers : GetPendingError(w)
    \/ \E w \in Endpoints, o \in Outcomes, f \in BOOLEAN :
          \E e \in batch[w] : ApiProcessEmail(w, e, o, f)
    \/ \E w \in Leasers : BatchDone(w)
    \/ \E w \in Workers : PollTick(w)
    \/ \E w \in Workers : WakeUp(w)
    \/ \E w \in Workers : HandleShutdown(w)
    \/ \E w \in Workers : WorkerDie(w)
    \/ \E w \in Workers : WorkerBoot(w)

Next ==
    \/ OtherNext
    \/ \E w \in Workers, o \in Outcomes, f \in BOOLEAN :
          \E e \in batch[w] : ProcessEmail(w, e, o, f)

Spec == Init /\ [][Next]_vars

\* the same system with the worker's counters followed
StatsNext ==
    \/ OtherNext
    \/ \E w \in Workers, o \in Outcomes, f \in BOOLEAN :
          \E e \in batch[w] : ProcessEmailCounted(w, e, o, f, ShortText)

StatsSpec == Init /\ [][StatsNext]_vars

\* the same system when the exception texts have any of the lengths
ErrorNext ==
    \/ Next
    \/ \E w \in Workers, o \in Outcomes, f \in BOOLEAN, len \in ErrorLengths :
          \E e \in batch[w] : ProcessEmailText(w, e, o, f, len)
    \/ \E w \in Endpoints, o \in Outcomes, f \in BOOLEAN, len \in ErrorLengths :
          \E e \in batch[w] : ApiProcessEmailText(w, e, o, f, len)

ErrorSpec == Init /\ [][ErrorNext]_vars

\* the queue with subjects of every length the ingress accepts
SubjectNext ==
    \/ Next
    \/ \E n \in 1..NumRows, k \in 0..NumRows, tpl \in BOOLEAN :
          SendEmailLongSubject(n, k, tpl)

SubjectSpec == Init /\ [][SubjectNext]_vars

\* --------------------------------------- _process_batch, task by task
\* the variables the tasks of a batch do not touch
notTaskVars == <<rows, txn, batch, pc, running, cycle_error, send_calls,
                 sched_count, sleep_left, long_subject, httpVars, smtpVars, storeVars, statVars>>

\* _process_batch: the lease returned n records; one task per record is
\* handed to asyncio.gather (an empty list returns before that)
GatherStart(n) ==
    /\ gather = "idle"
    /\ n >= 1
    /\ task' = [t \in TaskIds |-> IF t <= n THEN "ready" ELSE "none"]
    /\ gather' = "waiting"
    /\ UNCHANGED <<sem, notTaskVars>>

\* _process_email_with_semaphore: `async with self._semaphore` is entered.
\* _process_email holds no await today, so the event loop in fact runs the
\* tasks one after the other; the model does not rely on that and lets the
\* tasks that hold the semaphore overlap
TaskEnter(t) ==
    /\ task[t] = "ready"
    /\ ~SemaphoreLocked(sem)
    /\ sem' = sem - 1
    /\ task' = [task EXCEPT ![t] = "inside"]
    /\ UNCHANGED <<gather, notTaskVars>>

\* _process_email returned (ok) or raised; the semaphore is released either
\* way and the exception, logged, is re-raised into the task's result
TaskLeave(t, ok) ==
    /\ task[t] = "inside"
    /\ sem' = sem + 1
    /\ task' = [task EXCEPT ![t] = IF ok THEN "done" ELSE "raised"]
    /\ UNCHANGED <<gather, notTaskVars>>

\* `results = await asyncio.gather(...)` returns
GatherReturn ==
    /\ gather = "waiting"
    /\ GatherComplete
    /\ gather' = "returned"
    /\ UNCHANGED <<task, sem, notTaskVars>>

\* _process_batch returns and run() goes to sleep; the next cycle starts
\* with a new list of tasks
BatchEnd ==
    /\ gather = "returned"
    /\ \A t \in TaskIds : task[t] # "inside"
    /\ task' = [t \in TaskIds |-> "none"]
    /\ gather' = "idle"
    /\ UNCHANGED <<sem, notTaskVars>>

GatherNext ==
    \/ \E n \in 1..MaxBatch : GatherStart(n)
    \/ \E t \in TaskIds : TaskEnter(t)
    \/ \E t \in TaskIds, ok \in BOOLEAN : TaskLeave(t, ok)
    \/ GatherReturn
    \/ BatchEnd

GatherSpec == Init /\ [][GatherNext]_vars

\* ------------------------------------------------ SMTPClient, per step
\* the variables the SMTP client does not touch
notSmtpVars == <<rows, txn, batch, pc, running, cycle_error, send_calls,
                 sched_count, sleep_left, long_subject, httpVars, taskVars,
                 storeVars, statVars>>

\* time passes: the connection was last used one unit longer ago
SmtpTick ==
    /\ connection # NoConn
    /\ last_used < ConnTimeout
    /\ last_used' = last_used + 1
    /\ UNCHANGED <<connection, conns, call, notSmtpVars>>

\* send_email is called: the message is assembled and _send_message starts
\* its first attempt
CallSendEmail(t) ==
    /\ call[t].pc = "idle"
    /\ call' = [call EXCEPT ![t] = [IdleCall EXCEPT !.pc = "get"]]
    /\ UNCHANGED <<connection, last_used, conns, notSmtpVars>>

\* _send_message: `smtp = self._get_connection()`, the whole of it under
\* self._lock.  SMTPClientError of _create_connection is neither
\* SMTPException nor OSError: it leaves _send_message and send_email at once
GetConnection(t, reply, step, text) ==
    LET o == GetConnOutcome(SmtpState, reply, step)
    IN  /\ call[t].pc = "get"
        /\ GetConnInputs(SmtpState, reply, step)
        /\ text \in ErrorTexts(IF o.raised THEN step ELSE "none")
        /\ connection' = o.st.connection
        /\ last_used' = o.st.last_used
        /\ conns' = o.st.conns
        /\ call' = [call EXCEPT ![t] =
                      IF o.raised
                      THEN [@ EXCEPT !.pc = "idle", !.result = "raised",
                                     !.transient = IsTransientError(text),
                                     !.step = step]
                      ELSE [@ EXCEPT !.pc = "send", !.smtp = o.smtp]]
        /\ UNCHANGED notSmtpVars

\* _send_message: smtp.send_message(...) is entered; the lock is not held
SendBegin(t) ==
    /\ call[t].pc = "send"
    /\ call' = [call EXCEPT ![t] = [@ EXCEPT !.pc = "sending",
                                             !.sends = @ + 1]]
    /\ UNCHANGED <<connection, last_used, conns, notSmtpVars>>

\* smtp.send_message(...) returns ("ok", only on a connection that is still
\* open), raises SMTPException / OSError ("smtp_error"), or raises anything
\* else ("other_error": send_email wraps it with the keyword rule)
SendEnd(t, res, text) ==
    /\ call[t].pc = "sending"
    /\ res = "ok" => conns[call[t].smtp] = "open"
    /\ text \in ErrorTexts(IF res = "other_error" THEN "send" ELSE "none")
    /\ call' = [call EXCEPT ![t] =
                  CASE res = "ok" -> [@ EXCEPT !.pc = "idle", !.result = "ok"]
                    [] res = "smtp_error" ->
                         [@ EXCEPT !.pc = "failed",
                                   !.failed_on = call[t].smtp]
                    [] OTHER ->
                         [@ EXCEPT !.pc = "idle", !.result = "raised",
                                   !.transient = IsTransientError(text),
                                   !.step = "send"]]
    /\ UNCHANGED <<connection, last_used, conns, notSmtpVars>>

\* _send_message, except branch: `with self._lock: self._close_connection()`
\* and then either the next attempt or, after the last one,
\* SMTPClientError(is_transient=True)
CloseAfterFailure(t) ==
    LET st == CloseConnection(SmtpState)
    IN  /\ call[t].pc = "failed"
        /\ connection' = st.connection
        /\ last_used' = st.last_used
        /\ conns' = st.conns
        /\ call' = [call EXCEPT ![t] =
                      IF @.attempt = MaxAttempts - 1
                      THEN [@ EXCEPT !.pc = "idle", !.result = "raised",
                                     !.transient = TRUE, !.step = "send"]
                      ELSE [@ EXCEPT !.pc = "get", !.attempt = @ + 1]]
        /\ UNCHANGED notSmtpVars

\* validate_connection: _get_connection, any exception turned into False;
\* the owner calls it (EmailWorker.__init__) while no send is under way
ValidateConnection(reply, step) ==
    LET o == GetConnOutcome(SmtpState, reply, step)
    IN  /\ \A t \in Callers : call[t].pc = "idle"
        /\ GetConnInputs(SmtpState, reply, step)
        /\ connection' = o.st.connection
        /\ last_used' = o.st.last_used
        /\ conns' = o.st.conns
        /\ UNCHANGED <<call, notSmtpVars>>

\* close(): the owner closes the client when its callers are through
TransportClose ==
    LET st == CloseConnection(SmtpState)
    IN  /\ \A t \in Callers : call[t].pc = "idle"
        /\ connection # NoConn
        /\ connection' = st.connection
        /\ last_used' = st.last_used
        /\ conns' = st.conns
        /\ UNCHANGED <<call, notSmtpVars>>

SmtpNext ==
    \/ SmtpTick
    \/ \E t \in Callers : CallSendEmail(t)
    \/ \E t \in Callers, reply \in NoopReplies \cup {"not_sent"},
          step \in CreateSteps \cup {"not_run"} :
            \E text \in ErrorTexts(step) \cup ErrorTexts("none") :
                GetConnection(t, reply, step, text)
    \/ \E t \in Callers : SendBegin(t)
    \/ \E t \in Callers, res \in {"ok", "smtp_error", "other_error"} :
          \E text \in ErrorTexts("send") \cup ErrorTexts("none") :
              SendEnd(t, res, text)
    \/ \E t \in Callers : CloseAfterFailure(t)
    \/ \E reply \in NoopReplies \cup {"not_sent"},
          step \in CreateSteps \cup {"not_run"} :
            ValidateConnection(reply, step)
    \/ TransportClose

SmtpSpec == Init /\ [][SmtpNext]_vars

\* ------------------------------------- EmailQueueManager, per operation
\* the variables the queue manager's pool handling does not touch
notStoreVars == <<rows, txn, batch, pc, running, cycle_error, send_calls,
                  sched_count, sleep_left, long_subject, httpVars, taskVars,
                  smtpVars, statVars>>

\* the server or the network drops a connection, whoever holds it
DbConnDies(c) ==
    /\ dbpool[c].state # "none"
    /\ dbpool[c].alive
    /\ dbpool' = [dbpool EXCEPT ![c] = [@ EXCEPT !.alive = FALSE]]
    /\ UNCHANGED <<dbop, notStoreVars>>

\* a queue operation is called
DbOpBegin(o, kind) ==
    /\ dbop[o].pc \in {"idle", "done"}
    /\ dbop' = [dbop EXCEPT ![o] = [IdleDbOp EXCEPT !.pc = "get",
                                                    !.kind = kind]]
    /\ UNCHANGED <<dbpool, notStoreVars>>

\* `conn = self._get_connection()` at the head of an attempt
DbGetConnection(o, c1, ok1, c2, ok2) ==
    LET g == GetDbConnection(dbpool, c1, ok1, c2, ok2)
        x == GetRaised(dbop[o].kind, g.raised)
    IN  /\ dbop[o].pc = "get"
        /\ GetDbConnectionInputs(dbpool, c1, ok1, c2, ok2)
        /\ dbpool' = g.pool
        /\ dbop' = [dbop EXCEPT ![o] =
                      IF g.raised # "none"
                      THEN [@ EXCEPT !.pc = x.pc, !.result = x.result,
                                     !.failure = x.failure,
                                     !.attempt = @ + 1]
                      ELSE [@ EXCEPT !.pc = "body", !.conn = g.conn]]
        /\ UNCHANGED notStoreVars

\* the try block of an attempt with its except and finally branches: the
\* SQL round trip, the rollback, the decision to go on, and
\* _return_connection(conn) in every case
DbAttempt(o, outcome, rollbackOk) ==
    LET c == dbop[o].conn
        x == AttemptResult(dbop[o].kind, dbop[o].attempt, outcome, rollbackOk)
    IN  /\ dbop[o].pc = "body"
        /\ outcome = "ok" => dbpool[c].alive
        /\ ~rollbackOk => (outcome # "ok" /\ ~dbpool[c].alive
                           /\ HasRollback(dbop[o].kind))
        /\ dbpool' = ReturnConnection(dbpool, c)
        /\ dbop' = [dbop EXCEPT ![o] =
                      [@ EXCEPT !.pc = x.pc, !.result = x.result,
                                !.failure = x.failure, !.conn = NoDbConn,
                                !.attempt = @ + 1]]
        /\ UNCHANGED notStoreVars

PoolNext ==
    \/ \E c \in DbConnIds : DbConnDies(c)
    \/ \E o \in DbCallers, kind \in DbKinds : DbOpBegin(o, kind)
    \/ \E o \in DbCallers, c1, c2 \in DbConnIds \cup {NoDbConn},
          ok1, ok2 \in BOOLEAN : DbGetConnection(o, c1, ok1, c2, ok2)
    \/ \E o \in DbCallers, outcome \in DbOutcomes, rollbackOk \in BOOLEAN :
          DbAttempt(o, outcome, rollbackOk)

PoolSpec == Init /\ [][PoolNext]_vars

\* every leaser keeps polling and working: the worker loop of run() and the
\* scheduler that calls POST /queue/process periodically; time passes
FairSpec ==
    /\ Spec
    /\ WF_vars(Tick)
    /\ \A w \in Workers : WF_vars(GetPendingExecute(w, WorkerBatchSize))
    /\ \A w \in Endpoints : WF_vars(GetPendingExecute(w, ApiBatchSize))
    /\ \A w \in Leasers : WF_vars(GetPendingCommit(w))
    /\ \A w \in Leasers : WF_vars(BatchDone(w))
    /\ \A w \in Workers : WF_vars(PollTick(w))
    /\ \A w \in Workers : WF_vars(WakeUp(w))
    /\ \A w \in Workers : WF_vars(WorkerBoot(w))
    /\ \A w \in Workers :
         WF_vars(\E o \in Outcomes, f \in BOOLEAN :
                    \E e \in batch[w] : ProcessEmail(w, e, o, f))
    /\ \A w \in Endpoints :
         WF_vars(\E o \in Outcomes, f \in BOOLEAN :
                    \E e \in batch[w] : ApiProcessEmail(w, e, o, f))

\* ================================================================ claims
\* row ids a leaser holds: locked by its open lease transaction, or returned
\* to it by get_pending_emails and not yet processed
Held(w) == txn[w] \cup {e.id : e \in batch[w]}

\* C1: the row-id sets of concurrent lease calls are disjoint, and a row is
\* held by at most one leaser at any instant
C1_LeasesDisjoint ==
    \A a \in Leasers, b \in Leasers : a # b => Held(a) \cap Held(b) = {}

\* two lease calls are in flight at once and one of them has locked a row
C1_Witness ==
    \E a \in Leasers, b \in Leasers :
        /\ a # b
        /\ pc[a] = "lease_tx" /\ txn[a] # {}
        /\ pc[b] = "lease_tx"

\* C2: retry_count <= max_retries for every row, and at most
\* max_retries + 1 send_email calls are made for a row
C2_RetryBound ==
    \A r \in Rows :
        rows[r].status # "absent" =>
            /\ rows[r].retry_count <= rows[r].max_retries
            /\ send_calls[r] <= rows[r].max_retries + 1

\* a row that used up every attempt: max_retries + 1 sends, all retries
C2_Witness ==
    \E r \in Rows :
        /\ rows[r].status = "failed"
        /\ rows[r].retry_count = rows[r].max_retries
        /\ send_calls[r] = rows[r].max_retries + 1

\* the status DAG of the data model (plus the creation of the row)
DagEdges ==
    {<<"absent", "pending">>,
     <<"pending", "processing">>, <<"scheduled", "processing">>,
     <<"processing", "sent">>, <<"processing", "scheduled">>,
     <<"processing", "failed">>}

\* C3: every status change of every row is an edge of the DAG
\* pending -> processing -> {sent, scheduled, failed},
\* scheduled -> processing; sent and failed have no way out
C3_StatusDag ==
    [][\A r \in Rows :
          rows'[r].status # rows[r].status =>
              <<rows[r].status, rows'[r].status>> \in DagEdges]_vars

\* a row that went pending, processing, scheduled, processing, sent
C3_Witness ==
    \E r \in Rows : rows[r].status = "sent" /\ rows[r].retry_count >= 1

\* C4: once a row is sent or failed, no step changes its status, sent_at or
\* last_error
C4_TerminalFrozen ==
    [][\A r \in Rows :
          rows[r].status \in {"sent", "failed"} =>
              /\ rows'[r].status = rows[r].status
              /\ rows'[r].sent_at = rows[r].sent_at
              /\ rows'[r].last_error = rows[r].last_error]_vars

\* a terminal row while a later lease call runs and a leaser that processed
\* it earlier is active again
C4_Witness ==
    \E r \in Rows, w \in Leasers :
        /\ rows[r].status \in {"sent", "failed"}
        /\ send_calls[r] >= 1
        /\ pc[w] = "lease_tx"

\* the step finalises row r after a failed attempt
FailureFinalised(r) ==
    /\ rows[r].status = "processing"
    /\ rows'[r].status \in {"scheduled", "failed"}

\* C5 as claimed: after a failed attempt the row is retried when
\* retry_count < max_retries or the error is transient, and failed otherwise
C5_RetryOrTransient ==
    [][\A r \in Rows :
          FailureFinalised(r) =>
              (rows'[r].status = "scheduled" <=>
                  (rows[r].retry_count < rows[r].max_retries
                     \/ rows'[r].last_error = "smtp_transient"))]_vars

\* C5 as amended: after a failed attempt the row is retried exactly when
\* retry_count < max_retries, whether or not the error is transient
C5_RetryIffBelowMax ==
    [][\A r \in Rows :
          FailureFinalised(r) =>
              (rows'[r].status = "scheduled" <=>
                  rows[r].retry_count < rows[r].max_retries)]_vars

\* a transient error that was answered with mark_failed
C5_Witness ==
    \E r \in Rows :
        /\ rows[r].status = "failed"
        /\ rows[r].last_error = "smtp_transient"

C7_Exhaustion ==
    \A r \in Rows :
        /\ sched_count[r] <= rows[r].max_retries
        /\ rows[r].status = "failed" => sched_count[r] = rows[r].max_retries

\* four failed sends of a row with max_retries = 3: scheduled three times,
\* then failed
C7_Witness ==
    \E r \in Rows :
        /\ rows[r].status = "failed"
        /\ rows[r].max_retries = DefaultMaxRetries
        /\ sched_count[r] = DefaultMaxRetries
        /\ send_calls[r] = DefaultMaxRetries + 1

\* row r is in processing and no leaser holds it
Orphaned(r) ==
    /\ rows[r].status = "processing"
    /\ \A w \in Leasers : r \notin Held(w)

\* C8: a row left in processing with no leaser holding it eventually leaves
\* processing again
C8_OrphanReclaimed ==
    \A r \in Rows : Orphaned(r) ~> (rows[r].status # "processing")

\* C9: the worker loop ends only from its sleep with running false; whatever
\* the cycle ran into, the worker goes to sleep after it and, still running,
\* polls again
C9_LoopSurvives ==
    [][\A w \in Workers :
          /\ (pc'[w] = "stopped" /\ pc[w] # "stopped") =>
                 (pc[w] = "sleep" /\ ~running[w])
          /\ (pc[w] = "batch" /\ pc'[w] \notin {"batch", "dead"}) =>
                 pc'[w] = "sleep"
          /\ (pc[w] = "sleep" /\ running[w] /\ pc'[w] \notin {"sleep", "dead"}) =>
                 pc'[w] = "poll"]_vars

\* a worker back at the top of its loop after a cycle that raised
C9_Witness ==
    \E w \in Workers : pc[w] = "poll" /\ cycle_error[w] /\ running[w]

\* C10: a row whose attempt failed in template rendering is marked failed,
\* never scheduled for a retry
C10_TemplateFailurePermanent ==
    [][\A r \in Rows :
          (FailureFinalised(r) /\ rows'[r].last_error = "template") =>
              rows'[r].status = "failed"]_vars

\* C11: once running is false the worker starts no lease, works
\* off the batch it holds and only then stops
C11_NoLeaseAfterSignal ==
    [][\A w \in Workers :
          /\ ~running[w] => ~(pc[w] = "poll" /\ pc'[w] = "lease_tx")
          /\ (~running[w] /\ pc[w] = "batch" /\ batch[w] # {}) =>
                 pc'[w] \in {"batch", "dead"}
          /\ (pc'[w] = "stopped" /\ pc[w] # "stopped") =>
                 (batch[w] = {} /\ txn[w] = {})]_vars

\* C12: a worker that is told to shut down does not stay asleep while the
\* rest of its poll interval runs down
C12_SleepInterrupted ==
    [][\A w \in Workers :
          (pc[w] = "sleep" /\ ~running[w] /\ pc'[w] = "sleep") =>
              sleep_left'[w] = sleep_left[w]]_vars

\* the accepted requests of client c that fall into the window of the given
\* length that opens with its i-th accepted request
InWindow(c, i, window) ==
    {j \in 1..Len(accepted[c]) :
        /\ accepted[c][j] <= accepted[c][i]
        /\ accepted[c][j] > accepted[c][i] - window}

\* C13: for every client, no window of 60 s holds more than
\* requests_per_minute accepted requests and no window of 1 s more than
\* requests_per_second; a request to /health is neither counted nor rejected
C13_WindowLimits ==
    /\ \A c \in Clients : \A i \in 1..Len(accepted[c]) :
          /\ Cardinality(InWindow(c, i, MinuteWindow)) <= Rpm
          /\ Cardinality(InWindow(c, i, SecondWindow)) <= Rps
    /\ verdict.path = "/health" => (verdict.allowed /\ ~verdict.counted)

\* client c holds a map entry, and none of its recorded requests is recent
Stale(c) ==
    /\ requests[c] # << >>
    /\ \A i \in 1..Len(requests[c]) : requests[c][i] >= MinuteWindow

\* C14: a client without a request in the last 60 s has no map entry, at the
\* latest once the limiter has recorded another request
C14_StaleEvicted ==
    \A c \in Clients :
        (\E o \in Clients : \E i \in 1..Len(requests[o]) : requests[o][i] = 0)
            => ~Stale(c)

\* C15: with a configured key, /emails and /queue/status answer 401 "API key
\* required" without a key, 401 "Invalid API key" to another key and admit
\* the configured key; without a configured key they admit everything;
\* /health is admitted always
C15_ApiKeyGate ==
    LET key == response.input.key
    IN  /\ (response.path \in {"/emails", "/queue/status"}
              /\ response.stage # "limit") =>
               IF api_key = "" THEN response.stage = "handler"
               ELSE IF key = NoKey \/ key = ""
               THEN response.code = 401 /\ response.detail = "API key required"
               ELSE IF key # api_key
               THEN response.code = 401 /\ response.detail = "Invalid API key"
               ELSE response.stage = "handler"
        /\ response.path = "/health" => response.stage = "handler"

\* C16: the body of a 500 response is the fixed text of the place that
\* failed: a request failing there with any other internal exception would
\* have received the same text
C16_GenericErrorBody ==
    response.code = 500 =>
        /\ response.detail \notin InternalErrors
        /\ response.detail # AuthError
        /\ \A e \in InternalErrors \cup {AuthError} :
              response.detail = ErrorDetail(response.path, response.stage, e)

\* a handler answered 500 after the queue store raised
C16_Witness ==
    /\ response.code = 500
    /\ response.stage = "handler"
    /\ response.input.cause = "psycopg2: db2:6432 timeout"

\* C17: /health answers 200 "ok" exactly when the queue probe succeeds and
\* the SMTP configuration is well-formed, and 503 "degraded" otherwise
C17_HealthExact ==
    response.path = "/health" =>
        IF response.input.db = "ok" /\ response.input.smtp
        THEN response.code = 200 /\ response.detail = "ok"
        ELSE response.code = 503 /\ response.detail = "degraded"

\* C18: a POST /emails that is answered 202 has created one pending row per
\* recipient, n in all, by n enqueue calls, and touched no other row
C18_OneRowPerRecipient ==
    [][(response'.path = "/emails" /\ response'.code = 202
          /\ (rows' # rows \/ response' # response)) =>
          LET new == {r \in DOMAIN rows : /\ rows[r].status = "absent"
                                          /\ rows'[r].status = "pending"}
          IN  /\ Cardinality(new) = response'.input.n
              /\ \A r \in DOMAIN rows \ new : rows'[r] = rows[r]
              /\ response'.calls = response'.input.n
              /\ response'.created = response'.input.n]_vars

\* three recipients accepted: three rows
C18_Witness ==
    /\ response.path = "/emails"
    /\ response.code = 202
    /\ response.input.n = 3
    /\ Cardinality({r \in DOMAIN rows : rows[r].status = "pending"}) = 3

\* C19: a lease that committed hands every row it leased to its caller,
\* whatever the length of the subject the ingress accepted for it
C19_LeaseReturnsEveryRow ==
    [][\A w \in Leasers :
          (pc[w] = "lease_tx" /\ pc'[w] = "batch" /\ rows' # rows) =>
              {e.id : e \in batch'[w]} = txn[w]]_vars

\* C20: a send that succeeds moves exactly the leased row from processing
\* to sent and sets its sent_at; from then on the status counts report it
\* under sent
C20_SentOnce ==
    [][/\ \A r \in Rows :
             (rows'[r].status = "sent" /\ rows[r].status # "sent") =>
                 /\ rows[r].status = "processing"
                 /\ rows'[r].sent_at = "set"
                 /\ \A q \in Rows \ {r} : rows'[q] = rows[q]
                 /\ StatusCount("sent")' = StatusCount("sent") + 1
       /\ StatusCount("sent")' >= StatusCount("sent")
       /\ StatusCount("sent") =
             Cardinality({r \in Rows : rows[r].status = "sent"})]_vars

\* enqueue, lease, mark_sent at the first attempt: sent:1
C20_Witness ==
    \E r \in Rows :
        /\ rows[r].status = "sent"
        /\ rows[r].sent_at = "set"
        /\ rows[r].retry_count = 0
        /\ send_calls[r] = 1
        /\ StatusCount("sent") = 1

\* C21: when the queue calls succeed, the processing attempt of a leased
\* record finalises its row once, by one of mark_sent, schedule_retry and
\* mark_failed, and the record is then out of the batch; the batch is over
\* only when no record is left
C21_FinalisedOnce ==
    [][\A w \in Workers :
          /\ \A e \in batch[w] : \A outcome \in Outcomes \ {"mark_sent_error"} :
                ProcessEmail(w, e, outcome, TRUE) =>
                    /\ rows[e.id].status = "processing"
                    /\ rows'[e.id].status \in {"sent", "scheduled", "failed"}
                    /\ rows'[e.id].status = "sent" <=> outcome = "sent"
                    /\ rows'[e.id].retry_count \in
                          {e.retry_count, e.retry_count + 1}
                    /\ rows'[e.id].status = "scheduled" <=>
                          rows'[e.id].retry_count = e.retry_count + 1
                    /\ e \notin batch'[w]
          /\ (pc[w] = "batch" /\ pc'[w] = "sleep") => batch[w] = {}]_vars

\* the worker's batch is over after a failed send was turned into a retry
C21_Witness ==
    \E r \in Rows :
        /\ pc["w1"] = "batch"
        /\ batch["w1"] = {}
        /\ cycle_error["w1"]
        /\ rows[r].status = "scheduled"
        /\ rows[r].last_error = "smtp_transient"
        /\ rows[r].retry_count = 1

\* C22: a lease call that raises has left no row in processing
C22_RaisedLeaseLeavesNothing ==
    [][\A w \in Workers :
          (pc[w] = "lease_tx" /\ pc'[w] = "batch" /\ cycle_error'[w]) =>
              \A r \in Rows : rows'[r].status = "processing" =>
                                  rows[r].status = "processing"]_vars

\* C23: an attempt whose send succeeded calls neither schedule_retry nor
\* mark_failed for the row, also when mark_sent raises
C23_NoRetryAfterSend ==
    [][\A w \in Workers : \A e \in batch[w] : \A finalOk \in BOOLEAN :
          ProcessEmail(w, e, "mark_sent_error", finalOk) =>
              rows'[e.id].status \notin {"scheduled", "failed"}]_vars

\* C24: when asyncio.gather returns, every task of the batch has run to its
\* end, whether or not another task raised: the batch is not cut short by
\* an exception
C24_BatchNotAborted ==
    gather = "returned" =>
        \A t \in TaskIds : task[t] \in {"none", "done", "raised"}

\* the first task raised, the others ran all the same
C24_Witness ==
    /\ gather = "returned"
    /\ task[1] = "raised"
    /\ \A t \in TaskIds \ {1} : task[t] = "done"

\* C25: at most EMAIL_WORKER_CONCURRENCY tasks are inside _process_email,
\* however many records the batch has
C25_ConcurrencyBound ==
    /\ Cardinality(Inside) <= WorkerConcurrency
    /\ sem = WorkerConcurrency - Cardinality(Inside)

\* a batch larger than the semaphore: one task is inside while at least
\* WorkerConcurrency others are still to run
C25_Witness ==
    /\ Inside # {}
    /\ Cardinality({t \in TaskIds : task[t] = "ready"}) >= WorkerConcurrency

\* C26: of the callers of one client at most one is inside send_message,
\* and the connection a caller sends on has not been closed
C26_OneSendAtATime ==
    /\ Cardinality({t \in Callers : call[t].pc = "sending"}) <= 1
    /\ \A t \in Callers :
          call[t].pc = "sending" => conns[call[t].smtp] = "open"

\* C27: a send_email call makes at most MaxAttempts calls of send_message;
\* a failed attempt is followed by the teardown of the client's connection
\* before the next attempt starts, and that attempt runs on another
\* connection than the one whose send failed
C27_TeardownBetweenAttempts ==
    [][\A t \in Callers :
          /\ call'[t].sends <= MaxAttempts
          /\ (call[t].pc = "failed" /\ call'[t].pc = "get") =>
                /\ connection' = NoConn
                /\ connection # NoConn => conns'[connection] = "closed"
                /\ call[t].failed_on = connection =>
                      conns'[call[t].failed_on] = "closed"
          /\ (call'[t].attempt >= 1 /\ call'[t].pc \in {"send", "sending"}) =>
                call'[t].smtp # call'[t].failed_on]_vars

\* a caller is in its second attempt, on a new connection, the first one
\* closed
C27_Witness ==
    \E t \in Callers :
        /\ call[t].pc = "sending"
        /\ call[t].attempt = 1
        /\ call[t].sends = MaxAttempts
        /\ call[t].failed_on # NoConn
        /\ conns[call[t].failed_on] = "closed"
        /\ conns[call[t].smtp] = "open"

\* C28: a send_email call that raises, raises with is_transient = True
C28_FinalFailureTransient ==
    \A t \in Callers : call[t].result = "raised" => call[t].transient

\* C29: when NOOP raises or is answered with an error reply, the old
\* connection is closed and is no longer the client's connection
C29_BadNoopTearsDown ==
    [][\A t \in Callers, reply \in {"421", "raises"}, step \in CreateSteps :
          \A text \in ErrorTexts(step) \cup ErrorTexts("none") :
              GetConnection(t, reply, step, text) =>
                  /\ conns'[connection] = "closed"
                  /\ connection' # connection]_vars

\* C30: at most one connection of the client is open, and a connection
\* that is replaced has been closed
C30_OneOpenConnection ==
    [][/\ Cardinality({c \in ConnIds : conns'[c] = "open"}) <= 1
       /\ (connection # NoConn /\ connection' \notin {NoConn, connection}) =>
             conns'[connection] = "closed"]_vars


\* C31: every connection a queue operation works on was handed out by
\* _get_connection after it passed the SELECT 1 probe of that checkout
C31_HandedOutProbed ==
    \A o \in DbCallers :
        dbop[o].pc = "body" => dbpool[dbop[o].conn].probed

\* C32: an operation that ran into a connection error made at most
\* DbMaxRetries attempts and, when it failed, raised EmailQueueError; an
\* operation that ran into any other error raised EmailQueueError after
\* exactly one attempt
C32_BoundedRetryThenQueueError ==
    \A o \in DbCallers :
        (dbop[o].pc = "done" /\ dbop[o].kind # "health") =>
            /\ dbop[o].attempt <= DbMaxRetries
            /\ dbop[o].failure = "connection" =>
                   dbop[o].result = "EmailQueueError"
            /\ dbop[o].failure = "other" =>
                   (dbop[o].result = "EmailQueueError" /\ dbop[o].attempt = 1)

\* C33: a connection is checked out only by a caller that is inside an
\* attempt, by one caller at a time; a caller that is idle, between two
\* attempts or through (returned or raised) holds none; at most DbPoolMax
\* connections exist
C33_ConnectionsReturned ==
    /\ \A c \in DbConnIds :
          dbpool[c].state = "used" =>
              Cardinality({o \in DbCallers :
                             dbop[o].pc = "body" /\ dbop[o].conn = c}) = 1
    /\ \A o \in DbCallers :
          dbop[o].pc # "body" => dbop[o].conn = NoDbConn
    /\ Cardinality({c \in DbConnIds : dbpool[c].state = "used"}) <= DbPoolMax

\* an operation raised out of its except branch (the rollback failed on a
\* dead connection) and one ended after a failed probe and a failed
\* reconnect, and no connection is checked out
C33_Witness ==
    /\ \E o \in DbCallers :
          dbop[o].pc = "done" /\ dbop[o].result = "InterfaceError"
    /\ \E o \in DbCallers :
          dbop[o].pc = "done" /\ dbop[o].result = "OperationalError"
    /\ \A c \in DbConnIds : dbpool[c].state # "used"


\* C34: in every state every row has next_retry_at set exactly when its
\* status is scheduled
C34_NextRetryIffScheduled ==
    \A r \in Rows :
        (rows[r].next_retry_at # Null) <=> (rows[r].status = "scheduled")


\* C35: whoever finalised a row, the worker or POST /queue/process, the
\* stored last_error has at most 500 characters
C35_LastErrorTruncated ==
    \A r \in Rows : error_len[r] <= MaxErrorLen

\* C36: a step of the ingress process (a lease or a finalising call of
\* POST /queue/process included) leaves every row that exists as it is
C36_IngressOnlyCreates ==
    [][\A w \in Endpoints :
          (\/ GetPendingCommit(w)
           \/ \E o \in Outcomes, f \in BOOLEAN :
                 \E e \in batch[w] : ApiProcessEmail(w, e, o, f))
          => \A r \in Rows :
                 rows[r].status # "absent" => rows'[r] = rows[r]]_vars

\* C37: when the worker closes its resources it closes the SMTP transport
\* before the queue store, and at that moment no record of a batch is left
\* to process and no lease transaction is open
C37_TransportClosedFirst ==
    [][\A w \in Workers :
          (closed'[w] # closed[w] /\ closed'[w] # <<>>) =>
              /\ Len(closed'[w]) = 2
              /\ closed'[w][1] = "smtp"
              /\ closed'[w][2] = "queue"
              /\ batch[w] = {}
              /\ txn[w] = {}]_vars

\* a worker that sent a row, was told to stop and has closed its resources
C37_Witness ==
    \E w \in Workers, r \in Rows :
        /\ pc[w] = "stopped"
        /\ closed[w] # <<>>
        /\ rows[r].status = "sent"

\* C40: retry_count is the number of rows the worker moved to scheduled and
\* failed_count the number it moved to failed; between batches
\* processed_count is the number it moved to sent, so processed_count +
\* failed_count is the number of rows it finished
C40_CountersMatch ==
    \A w \in Workers :
        /\ stats[w].retry_count = moved[w].scheduled
        /\ stats[w].failed_count = moved[w].failed
        /\ stats[w].processed_count + stats[w].results = moved[w].sent
        /\ pc[w] # "batch" =>
              /\ stats[w].processed_count = moved[w].sent
              /\ stats[w].processed_count + stats[w].failed_count
                    = moved[w].sent + moved[w].failed

\* between batches, a worker that scheduled a retry of a row and later
\* sent it
C40_Witness ==
    \E w \in Workers :
        /\ pc[w] # "batch"
        /\ stats[w].processed_count = 1
        /\ stats[w].retry_count >= 1


\* C38: a POST /emails that is answered 500 because an enqueue call failed
\* has left no row of the request in the table
C38_AllOrNothing ==
    [][(/\ response'.path = "/emails"
        /\ response'.stage = "handler"
        /\ response'.code = 500
        /\ (rows' # rows \/ response' # response)) =>
          /\ rows' = rows
          /\ response'.created = 0]_vars

\* C39: a request that is_allowed rejects is not recorded: the client's
\* list holds what the cleaning of the window left of it and nothing more,
\* and no other client's list grows
C39_RejectedNotRecorded ==
    [][\A c \in Clients, path \in Paths, d \in 0..1 :
          (CheckRateLimit(c, path, d) /\ ~verdict'.allowed) =>
              /\ Len(requests'[c]) = Len(CleanOldRequests(requests[c], d))
              /\ Len(requests'[c]) <= Len(requests[c])
              /\ Len(accepted'[c]) <= Len(accepted[c])
              /\ \A o \in Clients \ {c} :
                     Len(requests'[o]) = Len(requests[o])]_vars

\* a request was rejected while the client's list holds recorded requests
C39_Witness ==
    /\ verdict.client \in Clients
    /\ ~verdict.allowed
    /\ ~verdict.counted
    /\ Len(requests[verdict.client]) >= 1

====
